---- MODULE Spec2Model ----
(***************************************************************************)
(* The incremental synchronization engine of cineby_scraper.py: the fetch  *)
(* client's retry loop, the page walkers (fetch_incremental and            *)
(* fetch_all_pages), dedupe, the per-category merge and the snapshot       *)
(* reader and writer, run after run against a remote catalog.              *)
(*                                                                         *)
(* One walked category ("movies") stands for the four categories main()    *)
(* handles with the same block of code (movies, TV, anime series, anime    *)
(* movies); "channels" is the category built by fetch_networks.            *)
(*                                                                         *)
(* Around it, the scheduler of run_all.py (one pipeline cycle: scraper,    *)
(* change detector, link generator, row-count baseline) and the link       *)
(* generator of linkvertise_api_lite.py (checkpoint, output workbook).     *)
(***************************************************************************)
EXTENDS Integers, Sequences, FiniteSets, TLC

\* ------------------------------------------------------------------ bounds
\* Remote ids are 1..MaxId (TMDB ids are positive integers).
MaxId == 3
\* A descriptor's remote listing has at most MaxPages pages.
MaxPages == 3
\* The pipeline's workbook has at most MaxRows rows in a sheet.
MaxRows == 2

\* ------------------------------------------------------- program constants
\* for attempt in range(3)
Attempts == 3
\* resp.headers.get("Retry-After", 5)
DefaultRetryAfter == 5
\* min(data.get("total_pages", 1), 500)
HardCap == 500
\* pages_to_fetch = 100
SliceBudget == 100
\* pages_to_fetch = MAX_PAGES_MOVIES or 500
GlobalBudget == 500
\* INCREMENTAL_UPDATE = True
INCREMENTAL_UPDATE == TRUE
\* SAVE_EVERY = 500
SAVE_EVERY == 500

Ids == 1..MaxId

\* Two of main()'s movie descriptors, in the order of the endpoints list: a
\* "global" one (budget 500) and a regional slice (budget 100).
endpoints ==
    << [desc |-> "Popular movies", global |-> TRUE],
       [desc |-> "Slice: Hindi / Bollywood", global |-> FALSE] >>

Descs == 1..Len(endpoints)

\* The page budget main() gives a descriptor.
pages_to_fetch(d) == IF endpoints[d].global THEN GlobalBudget ELSE SliceBudget

\* One of the ids fetch_networks always looks up.
known_networks == {49}

\* --------------------------------------------------------------- sequences
RECURSIVE SumSeq(_)
SumSeq(s) == IF s = <<>> THEN 0 ELSE Head(s) + SumSeq(Tail(s))

RECURSIVE SelectIn(_, _)
\* [r for r in s if r.id in S]
SelectIn(s, S) ==
    IF s = <<>> THEN <<>>
    ELSE IF Head(s).id \in S THEN <<Head(s)>> \o SelectIn(Tail(s), S)
         ELSE SelectIn(Tail(s), S)

RECURSIVE Ascending(_)
\* The elements of a finite set of integers, smallest first.
Ascending(S) ==
    IF S = {} THEN <<>>
    ELSE LET m == CHOOSE x \in S : \A y \in S : x <= y
         IN <<m>> \o Ascending(S \ {m})

RowIds(rows) == {rows[j].id : j \in 1..Len(rows)}

NoDuplicateIds(rows) ==
    \A i, j \in 1..Len(rows) : rows[i].id = rows[j].id => i = j

\* ------------------------------------------------------------ fetch client
\* What the server answers to one HTTP request: 2xx ("ok"), 429 with or
\* without a Retry-After header, or a failure that raises RequestException
\* ("err": a 5xx or other non-2xx status via raise_for_status, a network error).
Answer(kind, retry_after) == [kind |-> kind, retry_after |-> retry_after]

Answers == {Answer("ok", <<>>), Answer("429", <<>>), Answer("err", <<>>)}

\* The answers to the successive requests of one get() call.
AnswerSeqs == [1..Attempts -> Answers]

RECURSIVE GetLoop(_, _, _)
\* The body of "for attempt in range(3)" from iteration `attempt` on; acc
\* counts the requests made and the failures and lists the sleeps.
GetLoop(answers, attempt, acc) ==
    IF attempt >= Attempts
    THEN [acc EXCEPT !.ok = FALSE]
    ELSE LET a    == answers[attempt + 1]
             sent == [acc EXCEPT !.reqs = @ + 1]
         IN  CASE a.kind = "429" ->
                    LET wait == IF a.retry_after = <<>> THEN DefaultRetryAfter
                                ELSE a.retry_after[1]
                    IN  GetLoop(answers, attempt + 1,
                                [sent EXCEPT !.slept = Append(@, wait)])
               [] a.kind = "ok" -> [sent EXCEPT !.ok = TRUE]
               [] OTHER ->
                    IF attempt = 2
                    THEN [sent EXCEPT !.ok = FALSE, !.errs = @ + 1]
                    ELSE GetLoop(answers, attempt + 1,
                                 [sent EXCEPT !.errs = @ + 1,
                                              !.slept = Append(@, 2 ^ attempt)])

\* TMDBClient.get: ok = a body was returned (FALSE: the None sentinel).
get(answers) ==
    GetLoop(answers, 0, [ok |-> FALSE, reqs |-> 0, errs |-> 0, slept |-> <<>>])

\* ----------------------------------------------------------- remote source
\* Layouts: the page sizes of a listing, page by page.
PageSizes == {1, 2}

Layouts == UNION {[1..k -> PageSizes] : k \in 0..MaxPages}

RECURSIVE Paginate(_, _)
\* ids cut into pages of the sizes of layout.
Paginate(ids, layout) ==
    IF layout = <<>> THEN <<>>
    ELSE <<SubSeq(ids, 1, Head(layout))>>
         \o Paginate(SubSeq(ids, Head(layout) + 1, Len(ids)), Tail(layout))

\* Ids carry no meaning but their identity, so the first descriptor lists
\* 1, 2, ... in this order; the second descriptor and the stored snapshot range
\* over every order.
Listings1 ==
    {Paginate(Ascending(1..SumSeq(l)), l) : l \in {x \in Layouts : SumSeq(x) <= MaxId}}

InjectiveSeqs(S, n) ==
    {s \in [1..n -> S] : \A i, j \in 1..n : s[i] = s[j] => i = j}

\* The second descriptor, a thin slice: no page, or one page of any one id.
Listings2 ==
    UNION {{[j \in 1..n |-> <<s[j]>>] : s \in InjectiveSeqs(Ids, n)} : n \in 0..1}

Catalogs == {<<l1, l2>> : l1 \in Listings1, l2 \in Listings2}

\* The item the remote returns for id i in descriptor d's listing: the
\* descriptive fields (title, popularity, ...) are one value v, and two
\* descriptors may disagree on it.
Item(i, d) == [id |-> i, v |-> d]

\* The JSON body of page p of descriptor d of the catalog cat.
PageOf(cat, d, p) ==
    [results     |-> IF p \in 1..Len(cat[d])
                     THEN [j \in 1..Len(cat[d][p]) |-> Item(cat[d][p][j], d)]
                     ELSE <<>>,
     total_pages |-> Len(cat[d])]

\* ------------------------------------------------------- walkers and merge
Min(a, b) == IF a <= b THEN a ELSE b

\* new_on_page = [r for r in page_results if r.get("id") not in existing_ids]
new_on_page(page_results, existing_ids) ==
    SelectIn(page_results, RowIds(page_results) \ existing_ids)

\* Mutants of EarlyStop: the test shifted by one page; the page > 1 guard lost.
EarlyStopLate(new, p) == Len(new) = 0 /\ p > 2

EarlyStopAnyPage(new, p) == Len(new) = 0

\* Mutant of EarlyStop: the walker never stops early.
EarlyStopNever(new, p) == FALSE

\* The early-stop test of fetch_incremental.
EarlyStop(new, p) == Len(new) = 0 /\ p > 1

\* Mutant of LoopGoesOn: the page budget is not looked at.
LoopGoesOnNoBudget(p, total, max_pages) == p <= total

\* Whether the while loop runs another iteration at page p.
LoopGoesOn(p, total, max_pages) ==
    p <= total /\ ~(max_pages # 0 /\ p > max_pages)

\* Mutant of IncrementalStep: the walk stops on any page that holds a known
\* record.
IncrementalStepStopsOnKnown(body, p, res, existing_ids, max_pages) ==
    LET total == Min(body.total_pages, HardCap)
        new   == new_on_page(body.results, existing_ids)
        stop  == Len(new) < Len(body.results)
    IN  [results     |-> res \o new,
         total_pages |-> total,
         page        |-> IF stop THEN p ELSE p + 1,
         stopped     |-> stop,
         returns     |-> stop \/ ~LoopGoesOn(p + 1, total, max_pages)]

\* One iteration of fetch_incremental's loop on the body `body` of page p:
\* the walker's next page, total_pages and results, and whether it returns.
IncrementalStep(body, p, res, existing_ids, max_pages) ==
    LET total == Min(body.total_pages, HardCap)
        new   == new_on_page(body.results, existing_ids)
        stop  == EarlyStop(new, p)
    IN  [results     |-> res \o new,
         total_pages |-> total,
         page        |-> IF stop THEN p ELSE p + 1,
         stopped     |-> stop,
         returns     |-> stop \/ ~LoopGoesOn(p + 1, total, max_pages)]

\* Mutant of FullStep: the walk returns one page before the last.
FullStepStopsBeforeLast(body, p, res, max_pages) ==
    LET total == Min(body.total_pages, HardCap)
    IN  [results     |-> res \o body.results,
         total_pages |-> total,
         page        |-> p + 1,
         stopped     |-> FALSE,
         returns     |-> ~LoopGoesOn(p + 2, total, max_pages)]

\* One iteration of fetch_all_pages' loop.
FullStep(body, p, res, max_pages) ==
    LET total == Min(body.total_pages, HardCap)
    IN  [results     |-> res \o body.results,
         total_pages |-> total,
         page        |-> p + 1,
         stopped     |-> FALSE,
         returns     |-> ~LoopGoesOn(p + 1, total, max_pages)]

RECURSIVE DedupeFrom(_, _)
DedupeFrom(items, seen) ==
    IF items = <<>> THEN <<>>
    ELSE LET v == Head(items).id
         IN  IF v # 0 /\ v \notin seen
             THEN <<Head(items)>> \o DedupeFrom(Tail(items), seen \cup {v})
             ELSE DedupeFrom(Tail(items), seen)

\* Mutant of dedupe: no item is dropped.
dedupe_keeps_all(items) == items

RECURSIVE DedupeLastFrom(_)
DedupeLastFrom(items) ==
    IF items = <<>> THEN <<>>
    ELSE IF Head(items).id \in {Tail(items)[j].id : j \in 1..Len(Tail(items))}
         THEN DedupeLastFrom(Tail(items))
         ELSE <<Head(items)>> \o DedupeLastFrom(Tail(items))

\* Mutant of dedupe: the last item of each id is the one kept.
dedupe_keeps_last(items) == DedupeLastFrom(items)

\* dedupe(items): the first item of each truthy id, in order.
dedupe(items) == DedupeFrom(items, {})

\* normalize_movie: the row of an item; "Backdrop" and "Original Title" are
\* keys of the row that are no column of the sheet.
normalize_movie(item) == [id |-> item.id, title |-> item.v, backdrop |-> item.v]

\* Mutant of MergeRows: the loaded rows are left out of the merged rows.
MergeRowsNewOnly(existing_rows, new_rows, existing_ids) ==
    SelectIn(new_rows, RowIds(new_rows) \ existing_ids)

\* movies_data = existing + [r for r in new_data if r["TMDB ID"] not in ex_ids]
MergeRows(existing_rows, new_rows, existing_ids) ==
    existing_rows \o SelectIn(new_rows, RowIds(new_rows) \ existing_ids)

\* The merge block of main() for a walked category.
merge(existing_rows, fetched, existing_ids) ==
    LET new_items == dedupe(fetched)
        new_data  == [j \in 1..Len(new_items) |-> normalize_movie(new_items[j])]
    IN  MergeRows(existing_rows, new_data, existing_ids)

\* ------------------------------------------------------- reader and writer
\* write_sheet: one sheet row per record, the cells of the header columns.
write_sheet(rows) == [j \in 1..Len(rows) |-> [id |-> rows[j].id, title |-> rows[j].title]]

\* Mutant of load_existing_rows: the identifier column is not found
\* (id_idx is None), so the rows are returned with no id.
load_existing_rows_no_ids(sheet, readable) ==
    IF readable
    THEN [rows |-> sheet, ids |-> {}]
    ELSE [rows |-> <<>>, ids |-> {}]

\* load_existing_rows on a sheet of an existing store; readable = FALSE is
\* the except branch (the workbook or the sheet cannot be read).
load_existing_rows(sheet, readable) ==
    IF readable
    THEN [rows |-> sheet, ids |-> RowIds(sheet)]
    ELSE [rows |-> <<>>, ids |-> {}]

\* The sheets a run of the program can have written: no identifier twice.
Sheets(S, tag) ==
    UNION {{[j \in 1..n |-> [id |-> s[j], title |-> tag]] : s \in InjectiveSeqs(S, n)}
           : n \in 0..Cardinality(S)}

NoStore == [exists |-> FALSE, movies |-> <<>>, channels |-> <<>>]

\* -------------------------------------------------------------- run_all.py
\* The sheets of the workbook whose rows are counted.
SheetNames == {"movies", "channels"}

\* The empty dict of row counts.
EmptyCounts == [x \in {} |-> 0]

\* The dicts {sheet_name: row_count}.
CountMaps == UNION {[S -> 0..MaxRows] : S \in SUBSET SheetNames}

\* old_counts.get(sheet, 0)
GetCount(counts, sheet) == IF sheet \in DOMAIN counts THEN counts[sheet] ELSE 0

\* No file row_counts.json.
NoBaseline == [exists |-> FALSE, counts |-> EmptyCounts]

\* _load_row_counts: the dict of the file, {} when there is no file.
load_row_counts(file) == IF file.exists THEN file.counts ELSE EmptyCounts

\* _save_row_counts: the file after the write.
save_row_counts(counts) == [exists |-> TRUE, counts |-> counts]

\* _count_excel_rows: max_row - 1 per sheet, {} when the workbook cannot be
\* read.
count_excel_rows(wb, readable) ==
    IF readable THEN [x \in SheetNames |-> Len(wb[x])] ELSE EmptyCounts

\* Mutant of has_new_of: no first-run case.
has_new_no_first_run(old, new) ==
    \E x \in DOMAIN new : new[x] > GetCount(old, x)

\* Mutant of has_new_of: growth is always reported.
has_new_always(old, new) == TRUE

\* The verdict of detect_new_rows on the loaded and the counted dicts.
has_new_of(old, new) ==
    IF old = EmptyCounts
    THEN TRUE
    ELSE \E x \in DOMAIN new : new[x] > GetCount(old, x)

\* detect_new_rows(path): (has_new_rows, old_counts, new_counts).
detect_new_rows(file, wb, readable) ==
    LET old == load_row_counts(file)
        new == count_excel_rows(wb, readable)
    IN  [has_new |-> has_new_of(old, new), old_counts |-> old, new_counts |-> new]

\* The flags of the command line that run_pipeline_cycle reads (--web-only
\* never reaches it: main() returns before the loop).
Flags(no_scrape, skip_lv_only, skip_lv, force_lv) ==
    [no_scrape |-> no_scrape, skip_lv_only |-> skip_lv_only, skip_lv |-> skip_lv,
     force_lv |-> force_lv, web_only |-> FALSE]

NoFlags == Flags(FALSE, FALSE, FALSE, FALSE)

ArgSets ==
    {NoFlags, Flags(TRUE, FALSE, FALSE, FALSE), Flags(FALSE, TRUE, FALSE, FALSE),
     Flags(FALSE, FALSE, TRUE, FALSE), Flags(FALSE, FALSE, FALSE, TRUE)}

\* ------------------------------------------------ linkvertise_api_lite.py
\* The links the wrapping service returns; "" is an empty Linkvertise_Link.
Links == {"http-lv1", "http-lv2"}

NoCheckpoint == [exists |-> FALSE, data |-> <<>>]

NoOutput == [exists |-> FALSE, rows |-> <<>>]

\* _load_checkpoint: the dict {idx: lv_url} in the order of the CSV rows.
load_checkpoint(file) == IF file.exists THEN file.data ELSE <<>>

\* _save_checkpoint: the file after the write.
save_checkpoint(cp) == [exists |-> TRUE, data |-> cp]

\* cp_data[str(idx)] = lv_url on an insertion-ordered dict.
CpSet(cp, idx, lv_url) ==
    IF \E k \in 1..Len(cp) : cp[k].idx = idx
    THEN [k \in 1..Len(cp) |->
            IF cp[k].idx = idx THEN [idx |-> idx, lv_url |-> lv_url] ELSE cp[k]]
    ELSE Append(cp, [idx |-> idx, lv_url |-> lv_url])

RECURSIVE RecoverFrom(_, _, _)
\* for i, lv in enumerate(odf["Linkvertise_Link"]): if lv.startswith("http")
RecoverFrom(rows, i, cp) ==
    IF i >= Len(rows) THEN cp
    ELSE RecoverFrom(rows, i + 1,
                     IF rows[i + 1] \in Links THEN CpSet(cp, i, rows[i + 1]) ELSE cp)

\* The data frame read from a sheet of the source workbook: one row per
\* record, labelled 0, 1, ...; every record of the sheet has its URL.
read_source(sheet) ==
    [j \in 1..Len(sheet) |-> [label |-> j - 1, url |-> TRUE, link |-> ""]]

\* df.at[idx, "Linkvertise_Link"] = lv_url; on a label the frame does not
\* hold, the library either adds a row of that label (enlarge) or raises.
DfSet(frame, idx, lv_url, enlarge) ==
    IF \E k \in 1..Len(frame) : frame[k].label = idx
    THEN [k \in 1..Len(frame) |->
            IF frame[k].label = idx THEN [frame[k] EXCEPT !.link = lv_url]
            ELSE frame[k]]
    ELSE IF enlarge
         THEN Append(frame, [label |-> idx, url |-> FALSE, link |-> lv_url])
         ELSE frame

RECURSIVE MergeCheckpoint(_, _, _)
\* for idx_str, lv_url in cp_data.items(): df.at[int(idx_str), ...] = lv_url
MergeCheckpoint(frame, cp, enlarge) ==
    IF cp = <<>> THEN frame
    ELSE MergeCheckpoint(DfSet(frame, Head(cp).idx, Head(cp).lv_url, enlarge),
                         Tail(cp), enlarge)

RECURSIVE LabelsWhere(_, _)
LabelsWhere(frame, linked) ==
    IF frame = <<>> THEN <<>>
    ELSE IF Head(frame).url /\ ((Head(frame).link = "") \/ linked)
         THEN <<Head(frame).label>> \o LabelsWhere(Tail(frame), linked)
         ELSE LabelsWhere(Tail(frame), linked)

\* Mutant of needs_lv: the rows that have a link are taken too.
needs_lv_all(frame) == LabelsWhere(frame, TRUE)

\* needs_lv: the labels of the rows with no link and an http URL.
needs_lv(frame) == LabelsWhere(frame, FALSE)

\* _write_excel_sheet: the sheet's Linkvertise_Link column after the write.
write_excel_sheet(frame) ==
    [exists |-> TRUE, rows |-> [k \in 1..Len(frame) |-> frame[k].link]]

\* ------------------------------------------------------------------- state
VARIABLES
    remote,       \* the remote catalog: descriptor -> pages -> ids
    store,        \* the persisted workbook: exists, and a sheet per category
    pc,           \* where main() stands: idle, walk, abandon, merge, networks, save
    fetch_fn,     \* the walker main() chose for this run
    existing,     \* category -> the rows loaded from the store
    ex_ids,       \* category -> the ids loaded from the store
    di,           \* index of the descriptor being walked
    page,         \* the walker's page
    total_pages,  \* the walker's total_pages
    results,      \* the walker's results
    lists,        \* movie_lists
    data,         \* category -> the merged rows (movies_data, channels_data)
    fetched,      \* descriptor -> pages requested in this run
    failed,       \* the requests and failures of the get() that returned None
    clean,        \* no get() of this run has returned None
    prevClean,    \* no get() of the last completed run returned None
    args,         \* run_all.py: the command line flags
    baseline,     \* the file row_counts.json
    rpc,          \* where run_pipeline_cycle stands: sleep, check, step2, lv_rows
    has_new,      \* run_pipeline_cycle's has_new
    old_counts,   \* run_pipeline_cycle's old_counts
    new_counts,   \* run_pipeline_cycle's new_counts
    scrape,       \* how this cycle's scraper step ended: none, ok, failed, skipped
    queried,      \* detect_new_rows was called in this cycle
    rows_before,  \* the row counts of the workbook when the cycle began
    checkpoint,   \* linkvertise_api_lite.py: the sheet's checkpoint CSV
    output,       \* the sheet's Linkvertise_Link column in the output workbook
    df,           \* the link generator's data frame
    cp_data,      \* the link generator's cp_data
    todo,         \* the labels of needs_lv still to process
    n_todo,       \* the link generator's n_todo
    success,      \* the link generator's success counter
    errors,       \* the link generator's errors counter
    replies,      \* TMDBClient.get: what the server answers to the successive requests
    attempt,      \* the loop variable of get()
    trace,        \* the requests sent and the sleeps taken by get(), in order
    ret,          \* get(): idle, running, or what it returned (body, None)
    network_ids,  \* fetch_networks: the ids still to look up, in iteration order
    detailed,     \* fetch_networks: the rows appended so far
    skipped,      \* the ids fetch_networks has passed over without a row
    failure_lines, \* the "Request failed after 3 attempts" lines get() has printed
    sizes,        \* main(): the lengths of the five lists of records it has built
    stats,        \* main(): the stats dict of the run summary
    sheet_rows    \* the rows written to each of the five category sheets

\* The state of run_all.py and linkvertise_api_lite.py.
runner == <<args, baseline, rpc, has_new, old_counts, new_counts, scrape, queried,
            rows_before, checkpoint, output, df, cp_data, todo, n_todo, success,
            errors>>

\* The state of one call of TMDBClient.get.
client == <<replies, attempt, trace, ret>>

\* The state of the detail loop of fetch_networks.
lookup == <<network_ids, detailed, skipped, failure_lines>>

\* The state of the "BUILD EXCEL" block of main().
report == <<sizes, stats, sheet_rows>>

vars == <<remote, store, pc, fetch_fn, existing, ex_ids, di, page, total_pages,
          results, lists, data, fetched, failed, clean, prevClean, runner, client,
          lookup, report>>

locals == <<fetch_fn, existing, ex_ids, di, page, total_pages, results, lists,
            data, fetched, failed, clean>>

NoRows == [movies |-> <<>>, channels |-> <<>>]
NoIds == [movies |-> {}, channels |-> {}]
NoFailure == [reqs |-> 0, errs |-> 0]

\* The five lists of records main() builds, one per category sheet.
Lists == {"movies_data", "tv_data", "all_anime_data", "anime_movie_data",
          "channels_data"}
NoSizes == [l \in Lists |-> 0]
NoStats == [x \in {} |-> 0]

\* The state of a process that is not running.
AtRest ==
    /\ pc = "idle"
    /\ fetch_fn = "none"
    /\ existing = NoRows
    /\ ex_ids = NoIds
    /\ di = 0
    /\ page = 0
    /\ total_pages = 0
    /\ results = <<>>
    /\ lists = <<>>
    /\ data = NoRows
    /\ fetched = [d \in Descs |-> 0]
    /\ failed = NoFailure
    /\ clean = TRUE
    /\ replies = <<>>
    /\ attempt = 0
    /\ trace = <<>>
    /\ ret = "idle"
    /\ network_ids = <<>>
    /\ detailed = <<>>
    /\ skipped = {}
    /\ failure_lines = 0
    /\ sizes = NoSizes
    /\ stats = NoStats
    /\ sheet_rows = NoSizes

\* run_all.py before its first cycle, the link generator never run.
RunnerAtRest ==
    /\ args = NoFlags
    /\ baseline = NoBaseline
    /\ rpc = "sleep"
    /\ has_new = FALSE
    /\ old_counts = EmptyCounts
    /\ new_counts = EmptyCounts
    /\ scrape = "none"
    /\ queried = FALSE
    /\ rows_before = EmptyCounts
    /\ checkpoint = NoCheckpoint
    /\ output = NoOutput
    /\ df = <<>>
    /\ cp_data = <<>>
    /\ todo = <<>>
    /\ n_todo = 0
    /\ success = 0
    /\ errors = 0

\* The sheets of Sheets(S, tag) whose rows stand in increasing id order.
SortedSheets(S, tag) ==
    {x \in Sheets(S, tag) : \A i, j \in 1..Len(x) : i < j => x[i].id < x[j].id}

\* Any catalog, and no store or a snapshot earlier runs have left (against
\* whatever the remote held then): any set of ids, with field values (0) the
\* remote no longer returns. Runs then reach the other row orders and the
\* channel sheets.
Init ==
    /\ remote \in Catalogs
    /\ store \in {NoStore} \cup
                 {[exists |-> TRUE, movies |-> m, channels |-> <<>>]
                    : m \in SortedSheets(Ids, 0)}
    /\ prevClean = FALSE
    /\ AtRest
    /\ RunnerAtRest

\* ----------------------------------------------------------------- actions
\* The distinct results get() can return, over every answer of the server.
GetResults == {get(a) : a \in AnswerSeqs}

\* main() up to the first fetch: choose the walker, load the store.
Load ==
    /\ pc = "idle"
    /\ IF INCREMENTAL_UPDATE /\ store.exists
       THEN \E okM, okC \in BOOLEAN :
                LET m == load_existing_rows(store.movies, okM)
                    c == load_existing_rows(store.channels, okC)
                IN  /\ existing' = [movies |-> m.rows, channels |-> c.rows]
                    /\ ex_ids' = [movies |-> m.ids, channels |-> c.ids]
                    /\ fetch_fn' = "fetch_incremental"
       ELSE /\ existing' = NoRows
            /\ ex_ids' = NoIds
            /\ fetch_fn' = "fetch_all_pages"
    /\ di' = 1
    /\ page' = 1
    /\ total_pages' = 1
    /\ results' = <<>>
    /\ pc' = "walk"
    /\ UNCHANGED <<remote, store, lists, data, fetched, failed, clean, prevClean>>
    /\ UNCHANGED <<runner, client, lookup, report>>

\* The walker returns res: main() extends movie_lists and goes on to the
\* next descriptor, or to the merge after the last one.
Return(res) ==
    /\ lists' = lists \o res
    /\ di' = di + 1
    /\ page' = 1
    /\ total_pages' = 1
    /\ results' = <<>>
    /\ pc' = IF di < Len(endpoints) THEN "walk" ELSE "merge"

\* Mutant of WalkPage: the ids of the records the walker takes are added to
\* the known ids.
WalkPageLearns ==
    /\ pc = "walk"
    /\ \E g \in GetResults :
        /\ fetched' = [fetched EXCEPT ![di] = @ + 1]
        /\ IF g.ok
           THEN LET body == PageOf(remote, di, page)
                    s == IF fetch_fn = "fetch_incremental"
                         THEN IncrementalStep(body, page, results, ex_ids.movies,
                                              pages_to_fetch(di))
                         ELSE FullStep(body, page, results, pages_to_fetch(di))
                IN  /\ ex_ids' = [ex_ids EXCEPT !.movies = @ \cup RowIds(s.results)]
                    /\ IF s.returns
                       THEN Return(s.results)
                       ELSE /\ page' = s.page
                            /\ total_pages' = s.total_pages
                            /\ results' = s.results
                            /\ UNCHANGED <<lists, di, pc>>
                    /\ UNCHANGED <<failed, clean>>
           ELSE /\ ex_ids' = ex_ids
                /\ failed' = [reqs |-> g.reqs, errs |-> g.errs]
                /\ clean' = FALSE
                /\ pc' = "abandon"
                /\ UNCHANGED <<lists, di, page, total_pages, results>>
    /\ UNCHANGED <<remote, store, fetch_fn, existing, data, prevClean>>
    /\ UNCHANGED <<runner, client, lookup, report>>

\* One iteration of the walker's loop: request the page, then either take
\* its records or (the None sentinel) stand at the break.
WalkPage ==
    /\ pc = "walk"
    /\ \E g \in GetResults :
        /\ fetched' = [fetched EXCEPT ![di] = @ + 1]
        /\ IF g.ok
           THEN LET body == PageOf(remote, di, page)
                    s == IF fetch_fn = "fetch_incremental"
                         THEN IncrementalStep(body, page, results, ex_ids.movies,
                                              pages_to_fetch(di))
                         ELSE FullStep(body, page, results, pages_to_fetch(di))
                IN  /\ IF s.returns
                       THEN Return(s.results)
                       ELSE /\ page' = s.page
                            /\ total_pages' = s.total_pages
                            /\ results' = s.results
                            /\ UNCHANGED <<lists, di, pc>>
                    /\ UNCHANGED <<failed, clean>>
           ELSE /\ failed' = [reqs |-> g.reqs, errs |-> g.errs]
                /\ clean' = FALSE
                /\ pc' = "abandon"
                /\ UNCHANGED <<lists, di, page, total_pages, results>>
    /\ UNCHANGED <<remote, store, fetch_fn, existing, ex_ids, data, prevClean>>
    /\ UNCHANGED <<runner, client, lookup, report>>

\* Mutants of Abandon: the failure ends the walk of every descriptor; the
\* walker's records are dropped.
AbandonRun ==
    /\ pc = "abandon"
    /\ lists' = lists \o results
    /\ di' = Len(endpoints) + 1
    /\ page' = 1
    /\ total_pages' = 1
    /\ results' = <<>>
    /\ pc' = "merge"
    /\ failed' = NoFailure
    /\ UNCHANGED <<remote, store, fetch_fn, existing, ex_ids, data, fetched,
                   clean, prevClean>>
    /\ UNCHANGED <<runner, client, lookup, report>>

AbandonDiscard ==
    /\ pc = "abandon"
    /\ Return(<<>>)
    /\ failed' = NoFailure
    /\ UNCHANGED <<remote, store, fetch_fn, existing, ex_ids, data, fetched,
                   clean, prevClean>>
    /\ UNCHANGED <<runner, client, lookup, report>>

\* "if not data: break": the walker returns what it has.
Abandon ==
    /\ pc = "abandon"
    /\ Return(results)
    /\ failed' = NoFailure
    /\ UNCHANGED <<remote, store, fetch_fn, existing, ex_ids, data, fetched,
                   clean, prevClean>>
    /\ UNCHANGED <<runner, client, lookup, report>>

\* Mutant of Merge: the merged category is written to the store at once.
MergeAndWrite ==
    /\ pc = "merge"
    /\ data' = [data EXCEPT !.movies = merge(existing.movies, lists, ex_ids.movies)]
    /\ store' = [exists |-> TRUE,
                 movies |-> write_sheet(data'.movies),
                 channels |-> store.channels]
    /\ pc' = "networks"
    /\ UNCHANGED <<remote, fetch_fn, existing, ex_ids, di, page,
                   total_pages, results, lists, fetched, failed, clean, prevClean>>
    /\ UNCHANGED <<runner, client, lookup, report>>

\* dedupe, normalize and merge the category's lists.
Merge ==
    /\ pc = "merge"
    /\ data' = [data EXCEPT !.movies = merge(existing.movies, lists, ex_ids.movies)]
    /\ pc' = "networks"
    /\ UNCHANGED <<remote, store, fetch_fn, existing, ex_ids, di, page,
                   total_pages, results, lists, fetched, failed, clean, prevClean>>
    /\ UNCHANGED <<runner, client, lookup, report>>

\* The rows fetch_networks returns when the lookups of `found` return a body:
\* one row per network id, in the set's iteration order.
network_rows(found) ==
    LET order == Ascending(found)
    IN  [j \in 1..Len(order) |-> [id |-> order[j], title |-> 0]]

\* fetch_networks and the channels merge; a lookup whose get() returns None
\* is skipped.
Networks ==
    /\ pc = "networks"
    /\ \E okOf \in [known_networks -> {g.ok : g \in GetResults}] :
        LET found == {n \in known_networks : okOf[n]}
        IN  /\ data' = [data EXCEPT !.channels =
                           MergeRows(existing.channels, network_rows(found),
                                     ex_ids.channels)]
            /\ clean' = (clean /\ found = known_networks)
    /\ pc' = "save"
    /\ UNCHANGED <<remote, store, fetch_fn, existing, ex_ids, di, page,
                   total_pages, results, lists, fetched, failed, prevClean>>
    /\ UNCHANGED <<runner, client, lookup, report>>

\* Build the workbook, wb.save(output_path), and the process ends.
Save ==
    /\ pc = "save"
    /\ store' = [exists |-> TRUE,
                 movies |-> write_sheet(data.movies),
                 channels |-> write_sheet(data.channels)]
    /\ prevClean' = clean
    /\ pc' = "idle"
    /\ fetch_fn' = "none"
    /\ existing' = NoRows
    /\ ex_ids' = NoIds
    /\ di' = 0
    /\ page' = 0
    /\ total_pages' = 0
    /\ results' = <<>>
    /\ lists' = <<>>
    /\ data' = NoRows
    /\ fetched' = [d \in Descs |-> 0]
    /\ failed' = NoFailure
    /\ clean' = TRUE
    /\ UNCHANGED remote
    /\ UNCHANGED <<runner, client, lookup, report>>

Next == Load \/ WalkPage \/ Abandon \/ Merge \/ Networks \/ Save

Spec == Init /\ [][Next]_vars

\* The process is interrupted (Ctrl-C, a kill, an uncaught exception) before
\* wb.save: nothing handles it, the process ends and its memory is gone.
Interrupt ==
    /\ pc # "idle"
    /\ pc' = "idle"
    /\ fetch_fn' = "none"
    /\ existing' = NoRows
    /\ ex_ids' = NoIds
    /\ di' = 0
    /\ page' = 0
    /\ total_pages' = 0
    /\ results' = <<>>
    /\ lists' = <<>>
    /\ data' = NoRows
    /\ fetched' = [d \in Descs |-> 0]
    /\ failed' = NoFailure
    /\ clean' = TRUE
    /\ UNCHANGED <<remote, store, prevClean>>
    /\ UNCHANGED <<runner, client, lookup, report>>

NextInterrupt == Next \/ Interrupt

SpecInterrupt == Init /\ [][NextInterrupt]_vars

\* From no store at all: the first run is a full fetch.
InitFresh ==
    /\ remote \in Catalogs
    /\ store = NoStore
    /\ prevClean = FALSE
    /\ AtRest
    /\ RunnerAtRest

SpecFresh == InitFresh /\ [][Next]_vars

\* Catalogs longer than the walkers go: the first descriptor lists one page
\* more than the hard cap, or the second one page more than its budget; every
\* page holds one record, and each record is listed on two pages.
LongListing(n) == [p \in 1..n |-> <<(p + 1) \div 2>>]

LongCatalogs ==
    { <<LongListing(HardCap + 1), <<>>>>, <<<<>>, LongListing(SliceBudget + 1)>> }

InitLong ==
    /\ remote \in LongCatalogs
    /\ store \in {NoStore,
                 [exists |-> TRUE, movies |-> <<[id |-> 1, title |-> 0]>>,
                  channels |-> <<>>]}
    /\ prevClean = FALSE
    /\ AtRest
    /\ RunnerAtRest

\* The load and the walks of one run, up to the merge.
NextLong == Load \/ WalkPage \/ Abandon

SpecLong == InitLong /\ [][NextLong]_vars

\* ---------------------------------------------------- the pipeline cycles
\* The scraper's variables while run_all.py is modelled: the scraper runs as
\* one step of the cycle.
scraper == <<remote, pc, fetch_fn, existing, ex_ids, di, page, total_pages,
             results, lists, data, fetched, failed, clean, prevClean, client,
             lookup, report>>

\* A sheet of n rows.
PrefixSheet(n) == [j \in 1..n |-> [id |-> j, title |-> 0]]

\* The workbooks a completed run of cineby_scraper.py can leave, whatever it
\* found: rows are appended when the store was read, and replaced by the
\* fetched ones when it was not.
ScraperOutcomes ==
    {[exists |-> TRUE, movies |-> PrefixSheet(n), channels |-> c]
        : n \in 0..MaxRows, c \in {<<>>, write_sheet(network_rows(known_networks))}}

InitPipeline ==
    /\ remote = <<<<>>, <<>>>>
    /\ store \in {NoStore} \cup ScraperOutcomes
    /\ prevClean = FALSE
    /\ AtRest
    /\ args \in ArgSets
    /\ baseline = NoBaseline
    /\ rpc = "sleep"
    /\ has_new = FALSE
    /\ old_counts = EmptyCounts
    /\ new_counts = EmptyCounts
    /\ scrape = "none"
    /\ queried = FALSE
    /\ rows_before = EmptyCounts
    /\ checkpoint = NoCheckpoint
    /\ output = NoOutput
    /\ df = <<>>
    /\ cp_data = <<>>
    /\ todo = <<>>
    /\ n_todo = 0
    /\ success = 0
    /\ errors = 0

\* run_pipeline_cycle, step 1: run_script("cineby_scraper.py") unless a flag
\* skips it; a scraper that exits with an error ends the cycle. `outcomes` are
\* the workbooks a completed run of the scraper can leave.
ScraperStepOver(outcomes) ==
    /\ rpc = "sleep"
    /\ rows_before' = IF store.exists THEN count_excel_rows(store, TRUE)
                      ELSE EmptyCounts
    /\ queried' = FALSE
    /\ has_new' = FALSE
    /\ old_counts' = EmptyCounts
    /\ new_counts' = EmptyCounts
    /\ IF ~args.no_scrape /\ ~args.web_only /\ ~args.skip_lv_only
       THEN \E scrape_ok \in BOOLEAN :
               IF scrape_ok
               THEN /\ store' \in outcomes
                    /\ scrape' = "ok"
                    /\ rpc' = "check"
               ELSE /\ store' = store
                    /\ scrape' = "failed"
                    /\ rpc' = "sleep"
       ELSE /\ store' = store
            /\ scrape' = "skipped"
            /\ rpc' = "check"
    /\ UNCHANGED <<args, baseline, checkpoint, output, df, cp_data, todo, n_todo,
                   success, errors>>
    /\ UNCHANGED scraper

\* The scraper's run of a cycle over a store that it reads and appends to.
ScraperStep == ScraperStepOver(ScraperOutcomes)

\* "Check for new rows": the flag and the missing workbook end the cycle,
\* else detect_new_rows.
DetectStep ==
    /\ rpc = "check"
    /\ IF args.skip_lv \/ args.web_only \/ ~store.exists
       THEN /\ rpc' = "sleep"
            /\ UNCHANGED <<has_new, old_counts, new_counts, queried>>
       ELSE \E readable \in BOOLEAN :
               LET d == detect_new_rows(baseline, store, readable)
               IN  /\ has_new' = d.has_new
                   /\ old_counts' = d.old_counts
                   /\ new_counts' = d.new_counts
                   /\ queried' = TRUE
                   /\ rpc' = "step2"
    /\ UNCHANGED <<args, baseline, scrape, rows_before, checkpoint, output, df,
                   cp_data, todo, n_todo, success, errors, store>>
    /\ UNCHANGED scraper

\* Step 2: without new rows (and without --force-lv) the counts are saved and
\* the cycle ends; else the link generator starts: it copies the source to the
\* output on its first run, reads the sheet, loads the checkpoint (or, with no
\* checkpoint entry, the links of the output), merges it into the frame and
\* lists the rows to process. A sheet that cannot be read is skipped, which
\* ends the link generator at once.
LvStep ==
    /\ rpc = "step2"
    /\ IF has_new \/ args.force_lv
       THEN \E readable, enlarge \in BOOLEAN :
               LET out0 == IF output.exists THEN output
                           ELSE [exists |-> TRUE,
                                 rows |-> [j \in 1..Len(store.movies) |-> ""]]
                   cp0  == load_checkpoint(checkpoint)
                   cp   == IF cp0 = <<>> THEN RecoverFrom(out0.rows, 0, <<>>) ELSE cp0
                   frame == MergeCheckpoint(read_source(store.movies), cp, enlarge)
               IN  /\ output' = out0
                   /\ IF readable
                      THEN /\ checkpoint' = IF cp0 = <<>> /\ cp # <<>>
                                            THEN save_checkpoint(cp) ELSE checkpoint
                           /\ cp_data' = cp
                           /\ df' = frame
                           /\ todo' = needs_lv(frame)
                           /\ n_todo' = Len(needs_lv(frame))
                           /\ rpc' = "lv_rows"
                           /\ UNCHANGED baseline
                      ELSE /\ baseline' = save_row_counts(new_counts)
                           /\ rpc' = "sleep"
                           /\ UNCHANGED <<checkpoint, cp_data, df, todo, n_todo>>
       ELSE /\ baseline' = save_row_counts(new_counts)
            /\ rpc' = "sleep"
            /\ UNCHANGED <<checkpoint, output, cp_data, df, todo, n_todo>>
    /\ success' = 0
    /\ errors' = 0
    /\ UNCHANGED <<args, has_new, old_counts, new_counts, scrape, queried,
                   rows_before, store>>
    /\ UNCHANGED scraper

\* One row of needs_lv: the service returns a link, or the call raises and
\* the row stays without link; then the periodic checkpoint save.
LvRow ==
    /\ rpc = "lv_rows"
    /\ todo # <<>>
    /\ \E r \in Links \cup {"error"} :
          /\ IF r \in Links
             THEN /\ df' = DfSet(df, Head(todo), r, FALSE)
                  /\ cp_data' = CpSet(cp_data, Head(todo), r)
                  /\ success' = success + 1
                  /\ errors' = errors
             ELSE /\ errors' = errors + 1
                  /\ UNCHANGED <<df, cp_data, success>>
          /\ checkpoint' = IF success' > 0 /\ success' % SAVE_EVERY = 0
                           THEN save_checkpoint(cp_data') ELSE checkpoint
    /\ todo' = Tail(todo)
    /\ UNCHANGED <<args, baseline, rpc, has_new, old_counts, new_counts, scrape,
                   queried, rows_before, output, n_todo, store>>
    /\ UNCHANGED scraper

\* Mutant of LvFinish: the counts are saved only when the link generator
\* exited without error.
LvFinishSavesOnSuccess ==
    /\ rpc = "lv_rows"
    /\ todo = <<>>
    /\ checkpoint' = IF n_todo = 0 THEN checkpoint ELSE save_checkpoint(cp_data)
    /\ \E lv_ok \in BOOLEAN :
          /\ output' = IF lv_ok THEN write_excel_sheet(df) ELSE output
          /\ baseline' = IF lv_ok THEN save_row_counts(new_counts) ELSE baseline
    /\ rpc' = "sleep"
    /\ df' = <<>>
    /\ cp_data' = <<>>
    /\ n_todo' = 0
    /\ success' = 0
    /\ errors' = 0
    /\ UNCHANGED <<args, has_new, old_counts, new_counts, scrape, queried,
                   rows_before, todo, store>>
    /\ UNCHANGED scraper

\* The end of the sheet: the final checkpoint (when there were rows to
\* process), the sheet written to the output workbook (a write that raises
\* makes the link generator exit with an error), and back in
\* run_pipeline_cycle the counts saved whatever the exit code.
LvFinish ==
    /\ rpc = "lv_rows"
    /\ todo = <<>>
    /\ checkpoint' = IF n_todo = 0 THEN checkpoint ELSE save_checkpoint(cp_data)
    /\ \E lv_ok \in BOOLEAN :
          output' = IF lv_ok THEN write_excel_sheet(df) ELSE output
    /\ baseline' = save_row_counts(new_counts)
    /\ rpc' = "sleep"
    /\ df' = <<>>
    /\ cp_data' = <<>>
    /\ n_todo' = 0
    /\ success' = 0
    /\ errors' = 0
    /\ UNCHANGED <<args, has_new, old_counts, new_counts, scrape, queried,
                   rows_before, todo, store>>
    /\ UNCHANGED scraper

\* Between two cycles the checkpoint file is deleted ("output Excel was
\* written but checkpoint deleted").
DeleteCheckpoint ==
    /\ rpc = "sleep"
    /\ checkpoint.exists
    /\ checkpoint' = NoCheckpoint
    /\ UNCHANGED <<args, baseline, rpc, has_new, old_counts, new_counts, scrape,
                   queried, rows_before, output, df, cp_data, todo, n_todo,
                   success, errors, store>>
    /\ UNCHANGED scraper

NextPipeline ==
    ScraperStep \/ DetectStep \/ LvStep \/ LvRow \/ LvFinish \/ DeleteCheckpoint

SpecPipeline == InitPipeline /\ [][NextPipeline]_vars

\* ------------------------------------- the links and the records they wrap
\* client.linkvertise(USER_ID, target_url) wraps the URL it is given: the link
\* returned for the URL of record `id`.
LinkOf(id) == IF id = 1 THEN "http-lv1" ELSE "http-lv2"

\* The workbooks a completed run of cineby_scraper.py can leave when the rows
\* of the sheet are told apart: a run that read the store keeps the existing
\* rows first and appends the new ones; a run that found no store, or could
\* not read it (load_existing_rows returned [] and set()), writes the fetched
\* rows alone, in the order the pages gave them.
RewriteOutcomes ==
    {[exists |-> TRUE, movies |-> m, channels |-> <<>>] : m \in Sheets({1, 2}, 0)}

\* The scraper's run of a cycle, the rows of the sheet told apart.
ScraperRewrites == ScraperStepOver(RewriteOutcomes)

\* One row of needs_lv, the link returned being the one of the URL sent:
\* target_url = row[url_col] of the row labelled idx in the source sheet.
LvRowOfUrl ==
    /\ LvRow
    /\ success' > success =>
          \E k \in 1..Len(df') :
              /\ df'[k].label = Head(todo)
              /\ df'[k].link = LinkOf(store.movies[Head(todo) + 1].id)

InitLinks ==
    /\ InitPipeline
    /\ store = NoStore
    /\ args \in {NoFlags, Flags(FALSE, FALSE, FALSE, TRUE)}

NextLinks ==
    ScraperRewrites \/ DetectStep \/ LvStep \/ LvRowOfUrl \/ LvFinish
        \/ DeleteCheckpoint

SpecLinks == InitLinks /\ [][NextLinks]_vars

\* ------------------------------------------- the workbook, cell by cell
\* The reader and the writer on the cells of the workbook: a file is its
\* sheets by name, a sheet its header row and its rows of cells; a row of the
\* program is a dict from keys to values.
CategoryNames == {"movies", "channels"}

\* The sheet names main() passes to write_sheet.
writer_sheet_name(c) == IF c = "movies" THEN "Movies" ELSE "Channels"

\* The sheet names main() passes to load_existing_rows.
reader_sheet_name(c) == IF c = "movies" THEN "Movies" ELSE "Channels"

\* movie_headers and channel_headers, the identifier and one more column.
headers_of(c) ==
    IF c = "movies" THEN <<"TMDB ID", "Title">> ELSE <<"Network ID", "Name">>

\* Mutant of reader_id_col: the default id_col for every sheet.
reader_id_col_default(c) == "TMDB ID"

\* The id_col main() passes to load_existing_rows.
reader_id_col(c) == IF c = "movies" THEN "TMDB ID" ELSE "Network ID"

\* The value of an empty cell.
None == "None"

\* ws.cell(value=val) and the save: an empty string leaves the cell empty.
to_cell(val) == IF val = "" THEN None ELSE val

\* row_data.get(header, "")
GetKey(row, key) == IF key \in DOMAIN row THEN row[key] ELSE ""

\* write_sheet: the header row, then one row of cells per record.
write_sheet_cells(data_rows, headers) ==
    [header |-> headers,
     cells  |-> [j \in 1..Len(data_rows) |->
                   [k \in 1..Len(headers) |-> to_cell(GetKey(data_rows[j], headers[k]))]]]

\* A sheet with no row at all: next(rows_iter) raises StopIteration.
BlankSheet == [header |-> <<>>, cells |-> <<>>, blank |-> TRUE]

NoFile == [exists |-> FALSE, sheets |-> <<>>]

EmptyState == [rows |-> <<>>, ids |-> {}, raised |-> FALSE]

\* The body of the try block on a sheet that has a header row.
read_rows(sheet, id_col) ==
    LET headers == sheet.header
        id_idx  == IF \E k \in 1..Len(headers) : headers[k] = id_col
                   THEN CHOOSE k \in 1..Len(headers) : headers[k] = id_col
                   ELSE 0
    IN  [rows |-> [j \in 1..Len(sheet.cells) |->
                     [h \in {headers[k] : k \in 1..Len(headers)} |->
                        LET v == sheet.cells[j][CHOOSE k \in 1..Len(headers) : headers[k] = h]
                        IN  IF v = None THEN "" ELSE v]],
         ids  |-> IF id_idx = 0 THEN {}
                  ELSE {sheet.cells[j][id_idx] : j \in 1..Len(sheet.cells)} \ {None},
         raised |-> FALSE]

\* Mutant of CaughtByExcept: only the errors of opening the file are caught.
CaughtOnlyOpenErrors(exc) == exc = "InvalidFile"

\* "except Exception": every exception the try block raises is caught.
CaughtByExcept(exc) == exc \in {"InvalidFile", "StopIteration"}

\* What the except clause makes of an exception raised in the try block.
Handle(exc) ==
    IF CaughtByExcept(exc) THEN EmptyState ELSE [EmptyState EXCEPT !.raised = TRUE]

\* load_existing_rows(output_path, sheet_name, id_col); readable = FALSE:
\* load_workbook raises.
load_rows_from(file, sheet_name, id_col, readable) ==
    IF ~file.exists THEN EmptyState
    ELSE IF ~readable THEN Handle("InvalidFile")
    ELSE IF sheet_name \notin DOMAIN file.sheets THEN EmptyState
    ELSE IF "blank" \in DOMAIN file.sheets[sheet_name] THEN Handle("StopIteration")
    ELSE read_rows(file.sheets[sheet_name], id_col)

\* The workbook main() builds and saves.
save_workbook(rows_of) ==
    [exists |-> TRUE,
     sheets |-> [n \in {writer_sheet_name(c) : c \in CategoryNames} |->
                   LET c == CHOOSE c \in CategoryNames : writer_sheet_name(c) = n
                   IN  write_sheet_cells(rows_of[c], headers_of(c))]]

\* The rows normalize_movie and fetch_networks build: a movie row has keys
\* that are no column of its sheet, a channel row has none.
CellIds == {"1", "2"}

FreshRow(c, i, t) ==
    IF c = "movies"
    THEN [k \in {"TMDB ID", "Title", "Backdrop"} |->
            IF k = "TMDB ID" THEN i ELSE IF k = "Title" THEN t ELSE "b"]
    ELSE [k \in {"Network ID", "Name"} |-> IF k = "Network ID" THEN i ELSE t]

\* The new rows a run appends: rows of unseen ids, at most one per id.
FreshLists(c, seen) ==
    {<<>>}
    \cup {<<FreshRow(c, i, t)>> : i \in CellIds \ seen, t \in {"", "t"}}
    \cup {<<FreshRow(c, q[1], q[3]), FreshRow(c, q[2], "t")>>
            : q \in {x \in (CellIds \ seen) \X (CellIds \ seen) \X {"", "t"}
                        : x[1] # x[2]}}

\* The files a run can find: none, or a workbook with any of the sheets, each
\* blank, with its header row only, or with one row under it.
SheetOf(n, kind) ==
    LET c == IF n = "Channels" THEN "channels" ELSE "movies"
    IN  IF kind = "blank" THEN BlankSheet
        ELSE IF kind = "header" THEN write_sheet_cells(<<>>, headers_of(c))
        ELSE write_sheet_cells(<<FreshRow(c, "1", "t")>>, headers_of(c))

StoreFiles ==
    {NoFile} \cup
    {[exists |-> TRUE, sheets |-> [n \in S |-> SheetOf(n, kinds[n])]]
        : S \in SUBSET {"Movies", "Channels", "Summary"},
          kinds \in [{"Movies", "Channels", "Summary"} -> {"blank", "header", "row"}]}

InitStore ==
    /\ remote = <<<<>>, <<>>>>
    /\ store \in StoreFiles
    /\ prevClean = FALSE
    /\ AtRest
    /\ RunnerAtRest

\* main(): the loads of a run; an exception that leaves load_existing_rows
\* ends the process.
StoreLoad ==
    /\ pc = "idle"
    /\ \E ok \in [CategoryNames -> BOOLEAN] :
          LET r == [c \in CategoryNames |->
                      load_rows_from(store, reader_sheet_name(c), reader_id_col(c), ok[c])]
          IN  /\ existing' = [c \in CategoryNames |-> r[c].rows]
              /\ ex_ids' = [c \in CategoryNames |-> r[c].ids]
              /\ pc' = IF \E c \in CategoryNames : r[c].raised THEN "crashed"
                       ELSE "loaded"
    /\ UNCHANGED <<remote, store, fetch_fn, di, page, total_pages, results, lists,
                   data, fetched, failed, clean, prevClean>>
    /\ UNCHANGED <<runner, client, lookup, report>>

\* The merges: the loaded rows, then new rows of unseen ids.
StoreBuild ==
    /\ pc = "loaded"
    /\ \E m \in FreshLists("movies", ex_ids.movies),
          n \in FreshLists("channels", ex_ids.channels) :
          data' = [movies |-> existing.movies \o m, channels |-> existing.channels \o n]
    /\ pc' = "built"
    /\ UNCHANGED <<remote, store, fetch_fn, existing, ex_ids, di, page, total_pages,
                   results, lists, fetched, failed, clean, prevClean>>
    /\ UNCHANGED <<runner, client, lookup, report>>

\* write_sheet for every category and wb.save.
StoreSave ==
    /\ pc = "built"
    /\ store' = save_workbook(data)
    /\ pc' = "saved"
    /\ UNCHANGED <<remote, fetch_fn, existing, ex_ids, di, page, total_pages,
                   results, lists, data, fetched, failed, clean, prevClean>>
    /\ UNCHANGED <<runner, client, lookup, report>>

\* The saved workbook read back by load_existing_rows.
StoreReadBack ==
    /\ pc = "saved"
    /\ LET r == [c \in CategoryNames |->
                   load_rows_from(store, reader_sheet_name(c), reader_id_col(c), TRUE)]
       IN  /\ existing' = [c \in CategoryNames |-> r[c].rows]
           /\ ex_ids' = [c \in CategoryNames |-> r[c].ids]
    /\ pc' = "readback"
    /\ UNCHANGED <<remote, store, fetch_fn, di, page, total_pages, results, lists,
                   data, fetched, failed, clean, prevClean>>
    /\ UNCHANGED <<runner, client, lookup, report>>

\* The process has ended; the next run starts.
StoreEnd ==
    /\ pc = "readback"
    /\ pc' = "idle"
    /\ existing' = NoRows
    /\ ex_ids' = NoIds
    /\ data' = NoRows
    /\ UNCHANGED <<remote, store, fetch_fn, di, page, total_pages, results, lists,
                   fetched, failed, clean, prevClean>>
    /\ UNCHANGED <<runner, client, lookup, report>>

NextStore == StoreLoad \/ StoreBuild \/ StoreSave \/ StoreReadBack \/ StoreEnd

SpecStore == InitStore /\ [][NextStore]_vars

\* Workbooks that carry a Movies sheet the writer did not leave as it is: a
\* row whose identifier cell is empty, or no identifier column at all, beside
\* sheets as the writer leaves them.
ForeignSheet(kind) ==
    IF kind = "empty id"
    THEN [header |-> headers_of("movies"), cells |-> <<<<"1", "t">>, <<None, "t">>>>]
    ELSE [header |-> <<"Title">>, cells |-> <<<<"t">>>>]

ForeignFiles ==
    {[exists |-> TRUE,
      sheets |-> [n \in S \cup {"Movies"} |->
                    IF n = "Movies" THEN ForeignSheet(kind) ELSE SheetOf(n, kinds[n])]]
        : S \in SUBSET {"Channels", "Summary"},
          kind \in {"empty id", "no id column"},
          kinds \in [{"Channels", "Summary"} -> {"header", "row"}]}

InitForeign ==
    /\ remote = <<<<>>, <<>>>>
    /\ store \in ForeignFiles
    /\ prevClean = FALSE
    /\ AtRest
    /\ RunnerAtRest

SpecForeign == InitForeign /\ [][NextStore]_vars

\* ------------------------------------------------- get(), step by step
\* The answers of the server to one call: as Answers, and a 429 may carry a
\* Retry-After header.
ClientAnswers ==
    Answers \cup {Answer("429", <<1>>), Answer("429", <<2>>)}

Event(ev, s) == [ev |-> ev, s |-> s]

\* Mutant of backoff: the wait doubles from 2 s.
backoff_from_two(n) == 2 ^ (n + 1)

\* time.sleep(2 ** attempt)
backoff(n) == 2 ^ n

\* The sleeps of a trace, in order.
Sleeps(t) == SelectSeq(t, LAMBDA e : e.ev = "sleep")

\* The requests of a trace.
Requests(t) == SelectSeq(t, LAMBDA e : e.ev = "req")

\* The scraper's variables but the client's.
walker == <<remote, store, pc, fetch_fn, existing, ex_ids, di, page, total_pages,
            results, lists, data, fetched, failed, clean, prevClean>>

InitClient ==
    /\ remote = <<<<>>, <<>>>>
    /\ store = NoStore
    /\ prevClean = FALSE
    /\ pc = "idle"
    /\ fetch_fn = "none"
    /\ existing = NoRows
    /\ ex_ids = NoIds
    /\ di = 0
    /\ page = 0
    /\ total_pages = 0
    /\ results = <<>>
    /\ lists = <<>>
    /\ data = NoRows
    /\ fetched = [d \in Descs |-> 0]
    /\ failed = NoFailure
    /\ clean = TRUE
    /\ RunnerAtRest
    /\ replies \in [1..Attempts -> ClientAnswers]
    /\ attempt = 0
    /\ trace = <<>>
    /\ ret = "running"
    /\ network_ids = <<>>
    /\ detailed = <<>>
    /\ skipped = {}
    /\ failure_lines = 0
    /\ sizes = NoSizes
    /\ stats = NoStats
    /\ sheet_rows = NoSizes

\* One iteration of "for attempt in range(3)": the request, then the 429
\* branch, the return of the body, or the except branch.
ClientAttempt ==
    /\ ret = "running"
    /\ attempt < Attempts
    /\ LET a == replies[attempt + 1]
           sent == Append(trace, Event("req", 0))
       IN  CASE a.kind = "429" ->
                  /\ trace' = Append(sent, Event("sleep",
                                  IF a.retry_after = <<>> THEN DefaultRetryAfter
                                  ELSE a.retry_after[1]))
                  /\ attempt' = attempt + 1
                  /\ ret' = ret
             [] a.kind = "ok" ->
                  /\ trace' = sent
                  /\ ret' = "body"
                  /\ attempt' = attempt
             [] OTHER ->
                  IF attempt = 2
                  THEN /\ trace' = sent
                       /\ ret' = "None"
                       /\ attempt' = attempt
                  ELSE /\ trace' = Append(sent, Event("sleep", backoff(attempt)))
                       /\ attempt' = attempt + 1
                       /\ ret' = ret
    /\ UNCHANGED replies
    /\ UNCHANGED <<walker, runner, lookup, report>>

\* The loop ends without a return: "return None" after the loop.
ClientExhausted ==
    /\ ret = "running"
    /\ attempt >= Attempts
    /\ ret' = "None"
    /\ UNCHANGED <<replies, attempt, trace>>
    /\ UNCHANGED <<walker, runner, lookup, report>>

NextClient == ClientAttempt \/ ClientExhausted

SpecClient == InitClient /\ [][NextClient]_vars

\* ------------------------------------- fetch_networks, lookup by lookup
\* The ids the detail loop can meet: the well-known one, which is always
\* there, and another.
LookupIds == known_networks \cup {213}

\* The iteration orders of the set network_ids.
LookupOrders ==
    UNION {{o \in InjectiveSeqs(LookupIds, n) :
               known_networks \subseteq {o[j] : j \in 1..n}} : n \in 1..2}

\* get() prints "Request failed after 3 attempts" when its last attempt
\* raised, and nothing of the kind when the loop ends on a 429.
failure_logged(a) == ~get(a).ok /\ a[Attempts].kind = "err"

\* What a lookup can come to: a body or None, with or without that line.
LookupOutcomes ==
    {[ok |-> get(a).ok, logged |-> failure_logged(a)] : a \in AnswerSeqs}

\* Mutant of NetworkLookup: a lookup that yields no row ends the loop.
NetworkLookupAborts ==
    /\ pc = "networks"
    /\ network_ids # <<>>
    /\ \E g \in LookupOutcomes, has_id \in BOOLEAN :
          /\ IF g.ok /\ has_id
             THEN /\ detailed' = Append(detailed, [id |-> Head(network_ids), title |-> 0])
                  /\ skipped' = skipped
                  /\ network_ids' = Tail(network_ids)
             ELSE /\ detailed' = detailed
                  /\ skipped' = skipped \cup {Head(network_ids)}
                  /\ network_ids' = <<>>
          /\ failure_lines' = failure_lines + IF g.logged THEN 1 ELSE 0
    /\ UNCHANGED <<walker, runner, client, report>>

\* One iteration of "for nid in network_ids": the lookup, and a row when it
\* returns a body that carries an id.
NetworkLookup ==
    /\ pc = "networks"
    /\ network_ids # <<>>
    /\ \E g \in LookupOutcomes, has_id \in BOOLEAN :
          /\ IF g.ok /\ has_id
             THEN /\ detailed' = Append(detailed, [id |-> Head(network_ids), title |-> 0])
                  /\ skipped' = skipped
             ELSE /\ detailed' = detailed
                  /\ skipped' = skipped \cup {Head(network_ids)}
          /\ failure_lines' = failure_lines + IF g.logged THEN 1 ELSE 0
    /\ network_ids' = Tail(network_ids)
    /\ UNCHANGED <<walker, runner, client, report>>

\* fetch_networks returns and main() merges the channels.
NetworksReturn ==
    /\ pc = "networks"
    /\ network_ids = <<>>
    /\ data' = [data EXCEPT !.channels =
                   MergeRows(existing.channels, detailed, ex_ids.channels)]
    /\ pc' = "save"
    /\ UNCHANGED <<remote, store, fetch_fn, existing, ex_ids, di, page, total_pages,
                   results, lists, fetched, failed, clean, prevClean>>
    /\ UNCHANGED <<runner, client, lookup, report>>

\* The two batches side by side: a first full run of the scraper over an empty
\* catalog stands before its network lookups, and run_all.py --no-scrape
\* cycles over a workbook of two movies.
InitBatch ==
    /\ remote = <<<<>>, <<>>>>
    /\ store = [exists |-> TRUE, movies |-> PrefixSheet(2), channels |-> <<>>]
    /\ prevClean = FALSE
    /\ pc = "networks"
    /\ fetch_fn = "fetch_all_pages"
    /\ existing = NoRows
    /\ ex_ids = NoIds
    /\ di = Len(endpoints) + 1
    /\ page = 1
    /\ total_pages = 1
    /\ results = <<>>
    /\ lists = <<>>
    /\ data = NoRows
    /\ fetched = [d \in Descs |-> 1]
    /\ failed = NoFailure
    /\ clean = TRUE
    /\ replies = <<>>
    /\ attempt = 0
    /\ trace = <<>>
    /\ ret = "idle"
    /\ network_ids \in LookupOrders
    /\ detailed = <<>>
    /\ skipped = {}
    /\ failure_lines = 0
    /\ sizes = NoSizes
    /\ stats = NoStats
    /\ sheet_rows = NoSizes
    /\ args = Flags(TRUE, FALSE, FALSE, FALSE)
    /\ baseline = NoBaseline
    /\ rpc = "sleep"
    /\ has_new = FALSE
    /\ old_counts = EmptyCounts
    /\ new_counts = EmptyCounts
    /\ scrape = "none"
    /\ queried = FALSE
    /\ rows_before = EmptyCounts
    /\ checkpoint = NoCheckpoint
    /\ output = NoOutput
    /\ df = <<>>
    /\ cp_data = <<>>
    /\ todo = <<>>
    /\ n_todo = 0
    /\ success = 0
    /\ errors = 0

NextBatch == NetworkLookup \/ NetworksReturn \/ NextPipeline

SpecBatch == InitBatch /\ [][NextBatch]_vars

\* ----------------------------------------------------- the run summary
\* The stats dict main() builds from its five lists.
stats_of(l) ==
    [movies   |-> l["movies_data"],
     tv_shows |-> l["tv_data"],
     anime    |-> l["all_anime_data"] + l["anime_movie_data"],
     channels |-> l["channels_data"],
     total    |-> l["movies_data"] + l["tv_data"] + l["all_anime_data"]
                  + l["channels_data"]]

\* write_summary_sheet: the four category counts of the Summary sheet, and
\* its TOTAL CONTENT row.
summary_counts(st) == <<st.movies, st.tv_shows, st.anime, st.channels>>
summary_total(st) == st.total

\* The records written across the five category sheets.
written(rows) ==
    rows["movies_data"] + rows["tv_data"] + rows["all_anime_data"]
        + rows["anime_movie_data"] + rows["channels_data"]

\* main() has fetched and merged its four parts: the five lists stand.
ListsBuilt ==
    /\ stats = NoStats
    /\ sizes = NoSizes
    /\ \E l \in [Lists -> 0..MaxRows] : sizes' = l
    /\ UNCHANGED <<stats, sheet_rows>>
    /\ UNCHANGED <<walker, runner, client, lookup>>

\* "BUILD EXCEL": the stats dict, the Summary sheet, and one write_sheet per
\* list, a sheet row per record.
BuildExcel ==
    /\ stats = NoStats
    /\ stats' = stats_of(sizes)
    /\ sheet_rows' = sizes
    /\ UNCHANGED sizes
    /\ UNCHANGED <<walker, runner, client, lookup>>

InitSummary ==
    /\ remote = <<<<>>, <<>>>>
    /\ store = NoStore
    /\ prevClean = FALSE
    /\ AtRest
    /\ RunnerAtRest

NextSummary == ListsBuilt \/ BuildExcel

SpecSummary == InitSummary /\ [][NextSummary]_vars

\* ================================================================== claims
\* What the claims measure the walkers against: the records of pages 1..n of
\* descriptor d, all of them (full fetch) or those whose id is not in ids.
RECURSIVE RecordsOfPages(_, _, _)
RecordsOfPages(cat, d, n) ==
    IF n <= 0 THEN <<>>
    ELSE RecordsOfPages(cat, d, n - 1) \o PageOf(cat, d, n).results

RECURSIVE UnknownOfPages(_, _, _, _)
UnknownOfPages(cat, d, n, ids) ==
    IF n <= 0 THEN <<>>
    ELSE UnknownOfPages(cat, d, n - 1, ids)
         \o SelectIn(PageOf(cat, d, n).results,
                     RowIds(PageOf(cat, d, n).results) \ ids)

\* The pages of descriptor d a walk without failure and without early stop
\* requests: up to the listing's length, the hard cap and the budget.
PagesWithin(cat, d) == Min(Len(cat[d]), Min(HardCap, pages_to_fetch(d)))

\* The ids a single failure-free run from an empty snapshot stores.
FreshRunIds(cat) ==
    UNION {RowIds(RecordsOfPages(cat, d, PagesWithin(cat, d))) : d \in Descs}

\* How often id i occurs among rows.
Count(rows, i) == Cardinality({j \in 1..Len(rows) : rows[j].id = i})

\* This run read both sheets of the store as they are.
ReadAsStored ==
    existing = [movies |-> store.movies, channels |-> store.channels]

\* --------------------------------------------------------------------- C1
\* C1: after any sequence of runs (first, incremental, with failed fetches or
\* failed reads) no sheet of the persisted snapshot holds an identifier twice.
C1_DedupInvariant ==
    /\ NoDuplicateIds(store.movies)
    /\ NoDuplicateIds(store.channels)

\* C1 witness: a run has written a snapshot (it holds a channel and a fetched
\* row) in which an id listed by both descriptors and already stored before
\* stands beside other rows.
C1_Witness ==
    /\ pc = "idle"
    /\ store.channels # <<>>
    /\ Len(store.movies) >= 2
    /\ \E i \in Ids :
        /\ i \in RowIds(RecordsOfPages(remote, 1, Len(remote[1])))
        /\ i \in RowIds(RecordsOfPages(remote, 2, Len(remote[2])))
        /\ \E j \in 1..Len(store.movies) :
              store.movies[j].id = i /\ store.movies[j].title = 0
    /\ \E j \in 1..Len(store.movies) : store.movies[j].title # 0

\* --------------------------------------------------------------------- C2
\* C2 (as claimed): every run that completes leaves each sheet at least as
\* long as it was, also when the store could not be read or fetches failed.
C2_MonotonicGrowth ==
    [][/\ Len(store'.movies) >= Len(store.movies)
       /\ Len(store'.channels) >= Len(store.channels)]_vars

\* --------------------------------------------------------------------- C3
\* C3: a run that follows a failure-free run against the same catalog, reads
\* the store as it is and meets no failure itself, saves exactly the snapshot
\* it found: same rows, same ids, same order.
C3_Idempotent ==
    [][(pc = "save" /\ pc' = "idle" /\ prevClean /\ clean /\ ReadAsStored)
          => store' = store]_vars

\* C3 witness: such a second run stands before its save, having walked at
\* least two pages of a descriptor over a snapshot of two or more rows.
C3_Witness ==
    /\ pc = "save"
    /\ prevClean
    /\ clean
    /\ ReadAsStored
    /\ fetch_fn = "fetch_incremental"
    /\ fetched[1] >= 2
    /\ Len(store.movies) >= 2
    /\ store.channels # <<>>

\* --------------------------------------------------------------------- C4
\* C4 (as claimed), in the form a finite run refutes: failure-free runs are
\* deterministic, so once a failure-free incremental run over the store as it
\* is adds nothing, no later one adds anything; convergence then requires the
\* snapshot to hold already the ids of a failure-free run from an empty
\* snapshot.
C4_Converges ==
    (/\ pc = "save"
     /\ fetch_fn = "fetch_incremental"
     /\ clean
     /\ ReadAsStored
     /\ data.movies = existing.movies)
        => RowIds(store.movies) = FreshRunIds(remote)


\* --------------------------------------------------------------------- C5
\* A step in which the incremental walker requests its page and gets a body.
IncrementalPageTaken ==
    /\ pc = "walk"
    /\ fetch_fn = "fetch_incremental"
    /\ fetched'[di] = fetched[di] + 1
    /\ pc' # "abandon"

\* The records of page `page` of the walked descriptor that are not known.
UnknownOnPage ==
    SelectIn(PageOf(remote, di, page).results,
             RowIds(PageOf(remote, di, page).results) \ ex_ids.movies)

\* C5: the incremental walker standing at page p has requested pages 1..p-1,
\* each page after page 1 among them held a new record, and it holds exactly
\* the new records of pages 1..p-1; when page p > 1 then yields no new record
\* the walker has requested exactly p pages, returns exactly those records,
\* and no page of that descriptor is requested again in the run.
C5_EarlyStopExact ==
    /\ []((pc = "walk" /\ fetch_fn = "fetch_incremental") =>
            /\ fetched[di] = page - 1
            /\ results = UnknownOfPages(remote, di, page - 1, ex_ids.movies)
            /\ \A q \in 2..(page - 1) :
                  UnknownOfPages(remote, di, q, ex_ids.movies)
                     # UnknownOfPages(remote, di, q - 1, ex_ids.movies))
    /\ [][(IncrementalPageTaken /\ page > 1 /\ UnknownOnPage = <<>>) =>
            /\ di' = di + 1
            /\ fetched'[di] = page
            /\ lists' = lists \o UnknownOfPages(remote, di, page - 1, ex_ids.movies)]_vars
    /\ [][\A d \in Descs : (d < di /\ pc' # "idle") => fetched'[d] = fetched[d]]_vars

\* C5 witness: the first descriptor's walk stopped early at a page that is
\* not its last one, after a failure-free walk that returned new records
\* ([new, known, known]: 2 pages requested, page 1's records returned).
C5_Witness ==
    /\ fetch_fn = "fetch_incremental"
    /\ clean
    /\ di = 2
    /\ page = 1
    /\ fetched[2] = 0
    /\ fetched[1] >= 2
    /\ fetched[1] < Len(remote[1])
    /\ lists # <<>>
    /\ UnknownOfPages(remote, 1, fetched[1], ex_ids.movies) = lists

\* --------------------------------------------------------------------- C6
\* C6: when page 1 yields no new record the incremental walker goes on to
\* page 2 whenever page 2 is within the budget and the reported total_pages;
\* and whenever the walker returns although the next page is within both, the
\* page it stopped on is after page 1 and held no new record.
C6_PageOneNeverStops ==
    /\ [][(/\ IncrementalPageTaken
           /\ page = 1
           /\ UnknownOnPage = <<>>
           /\ 2 <= Min(PageOf(remote, di, 1).total_pages, HardCap)
           /\ 2 <= pages_to_fetch(di))
             => (pc' = "walk" /\ di' = di /\ page' = 2)]_vars
    /\ [][(/\ IncrementalPageTaken
           /\ di' = di + 1
           /\ page + 1 <= Min(PageOf(remote, di, page).total_pages, HardCap)
           /\ page + 1 <= pages_to_fetch(di))
             => (page > 1 /\ UnknownOnPage = <<>>)]_vars

\* C6 witness: the walker stands at page 2 of a descriptor whose page 1 held
\* only known records.
C6_Witness ==
    /\ pc = "walk"
    /\ fetch_fn = "fetch_incremental"
    /\ page = 2
    /\ results = <<>>
    /\ PageOf(remote, di, 1).results # <<>>
    /\ RowIds(PageOf(remote, di, 1).results) \subseteq ex_ids.movies

\* --------------------------------------------------------------------- C7
\* C7: when every request of a get() fails with an error other than 429 the
\* client makes exactly 3 requests and returns the sentinel; the walker then
\* leaves that descriptor, and the walk of the next descriptor starts at its
\* page 1, so that every descriptor has been walked when the merge begins.
C7_RetryCeiling ==
    /\ \A a \in AnswerSeqs :
          (\A k \in 1..Attempts : a[k].kind = "err") =>
              (~get(a).ok /\ get(a).reqs = 3 /\ get(a).errs = 3)
    /\ [](pc = "abandon" => (failed.errs = failed.reqs => failed.reqs = 3))
    /\ [][pc = "abandon" =>
            /\ di' = di + 1
            /\ (di < Len(endpoints) => (pc' = "walk" /\ page' = 1))
            /\ (di = Len(endpoints) => pc' = "merge")]_vars
    /\ [](pc \in {"merge", "networks", "save"} =>
            \A d \in Descs : fetched[d] >= 1)

\* C7 witness: the get() of a page of the first descriptor has returned the
\* sentinel after three requests that all failed, and a descriptor is left
\* to walk.
C7_Witness ==
    /\ pc = "abandon"
    /\ failed = [reqs |-> 3, errs |-> 3]
    /\ di < Len(endpoints)

\* --------------------------------------------------------------------- C8
\* C8 (as claimed): get() returns the failure sentinel only if 3 failures
\* other than 429 occurred; a 429 answer uses up none of the 3 attempts.
C8_RateLimitIsFree ==
    pc = "abandon" => failed.errs = 3

\* --------------------------------------------------------------------- C9
\* C9: a get() that returns the sentinel on page p leaves the walker's
\* records as they are; the walker then returns the records of the pages
\* before p (the new ones when incremental, all of them in a full fetch),
\* requests no further page of that descriptor, and the run goes on.
C9_PartialResultsKept ==
    /\ [](pc = "abandon" =>
            /\ fetched[di] = page
            /\ results = IF fetch_fn = "fetch_incremental"
                         THEN UnknownOfPages(remote, di, page - 1, ex_ids.movies)
                         ELSE RecordsOfPages(remote, di, page - 1))
    /\ [][pc = "abandon" =>
            /\ lists' = lists \o results
            /\ pc' \in {"walk", "merge"}
            /\ fetched' = fetched]_vars
    /\ [][\A d \in Descs : (d < di /\ pc' # "idle") => fetched'[d] = fetched[d]]_vars
    /\ [](pc = "save" =>
            \A j \in 1..Len(lists) : Count(data.movies, lists[j].id) = 1)

\* C9 witness: a run in which a walk failed on page 2 or later stands before
\* its save with the records of the earlier pages in its merged rows.
C9_Witness ==
    /\ pc = "save"
    /\ ~clean
    /\ \E d \in Descs :
        /\ fetched[d] >= 2
        /\ fetched[d] <= Len(remote[d])
        /\ RowIds(PageOf(remote, d, fetched[d]).results) \cap RowIds(data.movies) = {}
        /\ RowIds(PageOf(remote, d, 1).results) \cap RowIds(lists) # {}

\* -------------------------------------------------------------------- C10
\* C10: the merged rows of a category are the loaded rows, each once, then
\* one row for each fetched id that is not among the loaded ids; their number
\* is len(existing) plus the number of distinct fetched ids not in existing.
C10_MergeCount ==
    /\ pc \in {"networks", "save"} =>
        /\ Len(data.movies) = Len(existing.movies)
              + Cardinality(RowIds(lists) \ ex_ids.movies)
        /\ SubSeq(data.movies, 1, Len(existing.movies)) = existing.movies
        /\ \A i \in RowIds(existing.movies) : Count(data.movies, i) = 1
        /\ \A i \in RowIds(lists) \ ex_ids.movies : Count(data.movies, i) = 1
    /\ pc = "save" =>
        /\ SubSeq(data.channels, 1, Len(existing.channels)) = existing.channels
        /\ \A i \in RowIds(data.channels) : Count(data.channels, i) = 1
        /\ Len(data.channels) = Len(existing.channels)
              + Cardinality(RowIds(data.channels) \ ex_ids.channels)

\* C10 witness: a merge over loaded rows in which two descriptors fetched the
\* same unseen id, and the channels were merged too.
C10_Witness ==
    /\ pc = "save"
    /\ existing.movies # <<>>
    /\ Len(lists) > Cardinality(RowIds(lists))
    /\ RowIds(lists) \ ex_ids.movies # {}
    /\ Len(data.movies) > Len(existing.movies)
    /\ data.channels # <<>>

\* -------------------------------------------------------------------- C11
\* The index of the first item of id i among items.
FirstIndex(items, i) ==
    CHOOSE k \in 1..Len(items) :
        items[k].id = i /\ \A k2 \in 1..(k - 1) : items[k2].id # i

\* What the run's walker returns for descriptor d after n pages taken.
WalkOf(d, n) ==
    IF fetch_fn = "fetch_incremental"
    THEN UnknownOfPages(remote, d, n, ex_ids.movies)
    ELSE RecordsOfPages(remote, d, n)

RECURSIVE WalksUpTo(_, _)
\* The walks of descriptors 1..d, one after the other, n[d] pages each.
WalksUpTo(n, d) ==
    IF d = 0 THEN <<>> ELSE WalksUpTo(n, d - 1) \o WalkOf(d, n[d])

\* The rows of the merged movies that stand after the loaded ones.
Appended == SubSeq(data.movies, Len(existing.movies) + 1, Len(data.movies))

\* C11: the merged rows are the loaded rows as loaded and in their order,
\* then one row per unseen fetched id, in the order in which the ids first
\* occur in the fetched lists (descriptor after descriptor, page after page),
\* each with the field values of that first occurrence; and the save leaves
\* every row read from the store in place with its stored values, whatever
\* the remote returns for its id.
C11_MergeOrder ==
    /\ [](pc \in {"networks", "save"} =>
            /\ SubSeq(data.movies, 1, Len(existing.movies)) = existing.movies
            /\ RowIds(Appended) = RowIds(lists) \ ex_ids.movies
            /\ \A j \in 1..Len(Appended) :
                  Appended[j] = normalize_movie(lists[FirstIndex(lists, Appended[j].id)])
            /\ \A j1, j2 \in 1..Len(Appended) :
                  j1 < j2 => FirstIndex(lists, Appended[j1].id)
                                < FirstIndex(lists, Appended[j2].id)
            /\ \E n \in [Descs -> 0..MaxPages] :
                  /\ \A d \in Descs : n[d] <= fetched[d]
                  /\ lists = WalksUpTo(n, Len(endpoints)))
    /\ [][(pc = "save" /\ pc' = "idle" /\ existing.movies = store.movies) =>
            SubSeq(store'.movies, 1, Len(store.movies)) = store.movies]_vars

\* C11 witness: before the save, a stored row whose id the remote returned
\* on a fetched page with other values stands first, followed by a row for an
\* id both descriptors returned, with the first descriptor's values.
C11_Witness ==
    /\ pc = "save"
    /\ existing.movies = store.movies
    /\ \E j \in 1..Len(existing.movies) :
          /\ existing.movies[j].title = 0
          /\ existing.movies[j].id \in RowIds(RecordsOfPages(remote, 1, fetched[1]))
    /\ \E k1, k2 \in 1..Len(lists) :
          /\ k1 < k2
          /\ lists[k1].id = lists[k2].id
          /\ lists[k1].v # lists[k2].v
          /\ \E j \in 1..Len(Appended) :
                Appended[j] = normalize_movie(lists[k1])

\* -------------------------------------------------------------------- C12
\* The scenario: the snapshot holds ids 1, 2, 3; the first descriptor lists
\* two pages of 20 records, page 1 = 3, 4, 5, ..., page 2 = 21, ..., 40; the
\* other descriptor lists nothing.
ScenarioSnapshot == [j \in 1..3 |-> [id |-> j, title |-> 0]]

ScenarioCatalog == << << [j \in 1..20 |-> j + 2], [j \in 1..20 |-> j + 20] >>, <<>> >>

InitScenario ==
    /\ remote = ScenarioCatalog
    /\ store = [exists |-> TRUE, movies |-> ScenarioSnapshot, channels |-> <<>>]
    /\ prevClean = FALSE
    /\ AtRest
    /\ RunnerAtRest

SpecScenario == InitScenario /\ [][Next]_vars

\* The run of the scenario: an incremental run without failed fetch over the
\* snapshot 1, 2, 3 read as stored, standing after its merge.
ScenarioRunMerged ==
    /\ pc \in {"networks", "save"}
    /\ fetch_fn = "fetch_incremental"
    /\ clean
    /\ existing.movies = ScenarioSnapshot

\* C12 (as claimed): in the scenario the walker does not stop early and the
\* merged output is the ids 1..40, a total of 43 records.
C12_ScenarioAsClaimed ==
    ScenarioRunMerged =>
        /\ fetched[1] = 2
        /\ RowIds(data.movies) = 1..40
        /\ Len(data.movies) = 43

\* C12 (amended): in the scenario the walker requests both pages and returns
\* the unknown records of both, and the merged output is the ids 1..40, each
\* once: a total of 40 records (the 3 loaded rows and 37 appended ones).
C12_Scenario ==
    ScenarioRunMerged =>
        /\ fetched[1] = 2
        /\ lists = UnknownOfPages(remote, 1, 2, {1, 2, 3})
        /\ RowIds(data.movies) = 1..40
        /\ NoDuplicateIds(data.movies)
        /\ Len(data.movies) = 40
        /\ SubSeq(data.movies, 1, 3) = ScenarioSnapshot

\* C12 witness: the run of the scenario stands before its save, both pages
\* requested and the rows merged.
C12_Witness ==
    /\ ScenarioRunMerged
    /\ pc = "save"
    /\ fetched[1] = 2
    /\ Len(data.movies) > Len(existing.movies)

\* -------------------------------------------------------------------- C13
\* C13: with no baseline file detect_new_rows reports growth whatever the
\* counted dict is, the empty dict included.
C13_BootstrapGrowth ==
    /\ \A new \in CountMaps : has_new_of(load_row_counts(NoBaseline), new)
    /\ \A wb \in ScraperOutcomes, readable \in BOOLEAN :
          detect_new_rows(NoBaseline, wb, readable).has_new
    /\ (rpc = "step2" /\ ~baseline.exists) => has_new

\* C13 witness: the detector has been queried with no baseline file and a
\* workbook that could not be counted (the empty dict), before any save.
C13_Witness ==
    /\ rpc = "step2"
    /\ ~baseline.exists
    /\ new_counts = EmptyCounts
    /\ has_new

\* -------------------------------------------------------------------- C14
\* C14 (as claimed): with a baseline file saved by an earlier cycle, whatever
\* it holds, the detector reports growth exactly when the count of some sheet
\* is greater than its count in the baseline (0 for a sheet it does not hold).
C14_GrowthIffGreater ==
    (rpc = "step2" /\ baseline.exists) =>
        (has_new <=> \E x \in DOMAIN new_counts :
                        new_counts[x] > GetCount(baseline.counts, x))

\* -------------------------------------------------------------------- C15
\* A cycle of the pipeline has ended.
CycleEnded == rpc = "sleep" /\ scrape # "none"

FullPageTaken ==
    /\ pc = "walk"
    /\ fetch_fn = "fetch_all_pages"
    /\ fetched'[di] = fetched[di] + 1
    /\ pc' # "abandon"

\* C17: the full-refresh walker standing at page p has requested pages
\* 1..p-1 and holds all their records, known or not; absent a failed fetch it
\* returns only after the last page within the budget and the (capped)
\* total_pages, with the records of every page from 1 to that page.
C17_FullRefreshWalk ==
    /\ []((pc = "walk" /\ fetch_fn = "fetch_all_pages") =>
            /\ fetched[di] = page - 1
            /\ results = RecordsOfPages(remote, di, page - 1))
    /\ [][(FullPageTaken /\ di' = di + 1) =>
            /\ page >= PagesWithin(remote, di)
            /\ fetched'[di] = IF PagesWithin(remote, di) = 0 THEN 1
                              ELSE PagesWithin(remote, di)
            /\ lists' = lists \o RecordsOfPages(remote, di, PagesWithin(remote, di))]_vars
    /\ [][(FullPageTaken /\ page < PagesWithin(remote, di)) =>
            (pc' = "walk" /\ di' = di /\ page' = page + 1)]_vars

\* C17 witness: a full-refresh run without failed fetch has walked a first
\* descriptor of two or more pages to its end and the second descriptor, which
\* returned a record the first one had returned already.
C17_Witness ==
    /\ pc = "merge"
    /\ fetch_fn = "fetch_all_pages"
    /\ clean
    /\ Len(remote[1]) >= 2
    /\ fetched[1] = Len(remote[1])
    /\ Len(lists) > Cardinality(RowIds(lists))
    /\ lists = RecordsOfPages(remote, 1, Len(remote[1]))
                  \o RecordsOfPages(remote, 2, Len(remote[2]))

\* -------------------------------------------------------------------- C18
\* The step that invokes the link generator.
LvInvoked == rpc = "step2" /\ (has_new \/ args.force_lv) /\ rpc' # "step2"

\* The scraper step of this cycle has added rows to a sheet of the workbook.
RowsAdded ==
    /\ scrape = "ok"
    /\ \E x \in SheetNames : Len(store[x]) > GetCount(rows_before, x)

Recorded(i) ==
    \/ \E k \in 1..Len(checkpoint.data) : checkpoint.data[k].idx = i
    \/ /\ checkpoint.data = <<>>
       /\ i < Len(output.rows)
       /\ output.rows[i + 1] \in Links

\* The step that submits the row Head(todo) to the wrapping service.
Submits == rpc = "lv_rows" /\ todo # <<>> /\ todo' = Tail(todo)

OwnSheetFile(file, n) ==
    [exists |-> TRUE, sheets |-> [m \in {n} |-> file.sheets[m]]]

C16_LoadNeverRaises ==
    [][pc = "idle" /\ pc' # "idle" =>
         /\ pc' = "loaded"
         /\ \A c \in CategoryNames :
              LET n == reader_sheet_name(c)
              IN  /\ (~store.exists \/ n \notin DOMAIN store.sheets)
                       => existing'[c] = <<>> /\ ex_ids'[c] = {}
                  /\ (store.exists /\ n \in DOMAIN store.sheets
                        /\ "blank" \in DOMAIN store.sheets[n])
                       => existing'[c] = <<>> /\ ex_ids'[c] = {}
                  /\ (store.exists /\ n \in DOMAIN store.sheets)
                       => LET own == load_rows_from(OwnSheetFile(store, n), n,
                                                    reader_id_col(c), TRUE)
                          IN  \/ existing'[c] = <<>> /\ ex_ids'[c] = {}
                              \/ existing'[c] = own.rows /\ ex_ids'[c] = own.ids
         /\ \A c \in CategoryNames :
              LET unread == load_rows_from(store, reader_sheet_name(c),
                                           reader_id_col(c), FALSE)
              IN  ~unread.raised /\ unread.rows = <<>> /\ unread.ids = {}]_vars

\* A run has loaded rows of one category from a workbook that has no sheet of
\* the other.
C16_Witness ==
    /\ pc = "loaded"
    /\ store.exists
    /\ "Channels" \notin DOMAIN store.sheets
    /\ "Movies" \in DOMAIN store.sheets
    /\ existing.movies # <<>>
    /\ existing.channels = <<>>

\* ------------------------------------------------------------------ C20
\* C20: reading back the workbook the writer has just saved returns, for every
\* category, the records that were written, column for column and in the order
\* they were written, and a known-id set equal to the ids of those records.
Persisted(c, row) ==
    [h \in {headers_of(c)[k] : k \in 1..Len(headers_of(c))} |-> GetKey(row, h)]

C20_ReadBackAgrees ==
    pc = "readback" =>
       \A c \in CategoryNames :
          /\ Len(existing[c]) = Len(data[c])
          /\ \A j \in 1..Len(data[c]) : existing[c][j] = Persisted(c, data[c][j])
          /\ ex_ids[c] = {GetKey(data[c][j], reader_id_col(c)) : j \in 1..Len(data[c])}

\* A workbook of two movies, one with an empty title, and one channel has been
\* written and read back.
C20_Witness ==
    /\ pc = "readback"
    /\ Len(data.movies) = 2
    /\ \E j \in 1..2 : data.movies[j]["Title"] = ""
    /\ Len(data.channels) = 1
    /\ ex_ids.channels # {}

\* -------------------------------------------------------------------- C21
\* C21 (as claimed): whenever the incremental walker stops early at page p of
\* a descriptor, no page after p that the budget, the reported total_pages and
\* the hard cap would have let it request holds a record whose id is not among
\* the known ids.
C21_EarlyStopSkipsNothing ==
    [][(IncrementalPageTaken /\ page > 1 /\ UnknownOnPage = <<>>) =>
          UnknownOfPages(remote, di, PagesWithin(remote, di), ex_ids.movies)
             = UnknownOfPages(remote, di, page, ex_ids.movies)]_vars

\* -------------------------------------------------------------------- C22
\* The replies of this call are all failures other than 429.
OnlyErrors == \A k \in 1..Attempts : replies[k].kind = "err"

\* C22 (as claimed): when every request fails with an error other than 429,
\* get() makes 3 requests and sleeps 1 s, 2 s and 4 s before it returns the
\* sentinel.
C22_BackoffAsClaimed ==
    (ret = "None" /\ OnlyErrors) =>
        /\ Len(Requests(trace)) = 3
        /\ Sleeps(trace) = <<Event("sleep", 1), Event("sleep", 2), Event("sleep", 4)>>

\* C22: get() never sends more than 3 requests; when every request fails with
\* an error other than 429 it sends 3, sleeps 1 s after the first failure and
\* 2 s after the second, and returns the sentinel right after the third; the
\* sleeps of every call are those the retry loop of get() computes.
C22_Backoff ==
    /\ Len(Requests(trace)) <= 3
    /\ (ret = "None" /\ OnlyErrors) =>
          trace = <<Event("req", 0), Event("sleep", 1), Event("req", 0),
                    Event("sleep", 2), Event("req", 0)>>
    /\ ret \in {"None", "body"} =>
          /\ [j \in 1..Len(Sleeps(trace)) |-> Sleeps(trace)[j].s] = get(replies).slept
          /\ Len(Requests(trace)) = get(replies).reqs
          /\ (ret = "body") = get(replies).ok

\* A call whose three requests all failed has returned the sentinel.
C22_Witness ==
    /\ ret = "None"
    /\ OnlyErrors
    /\ Len(Requests(trace)) = 3

\* -------------------------------------------------------------------- C23
\* A step in which a walker requests its page.
PageRequested == pc = "walk" /\ fetched'[di] = fetched[di] + 1

\* C23: the n-th request of a descriptor's walk is for page n, so the pages
\* requested are 1, 2, ..., k in this order, none twice; every requested page
\* is at most the descriptor's page budget, at most 500, and, after page 1, at
\* most the total_pages the response to the page before reported.
C23_PagesInOrder ==
    [][PageRequested =>
         /\ page = fetched[di] + 1
         /\ page <= pages_to_fetch(di)
         /\ page <= HardCap
         /\ (page > 1 => page <= PageOf(remote, di, page - 1).total_pages)
         /\ (page > 1 => page <= total_pages)]_vars

\* The walk of the slice went on until its budget ended it, short of the
\* total_pages reported.
C23_Witness ==
    /\ pc = "merge"
    /\ fetched[2] = SliceBudget
    /\ Len(remote[2]) > SliceBudget
    /\ Len(lists) = SliceBudget

\* -------------------------------------------------------------------- C24
\* The number of pages of descriptor d that hold a record whose id is not in ids.
NewPages(cat, d, ids) ==
    Cardinality({p \in 1..Len(cat[d]) :
                    RowIds(PageOf(cat, d, p).results) \ ids # {}})

\* C24: in an incremental run the pages requested for a descriptor number at
\* most the pages of its listing that hold a new record, plus 2; when every
\* record of the listing is known, at most 2 pages are requested.
C24_IncrementalCost ==
    fetch_fn = "fetch_incremental" =>
        \A d \in Descs :
            /\ fetched[d] <= NewPages(remote, d, ex_ids.movies) + 2
            /\ NewPages(remote, d, ex_ids.movies) = 0 => fetched[d] <= 2

\* An incremental run has walked every descriptor; the first one lists three
\* pages of known records and two of them were requested.
C24_Witness ==
    /\ fetch_fn = "fetch_incremental"
    /\ pc = "merge"
    /\ Len(remote[1]) = 3
    /\ NewPages(remote, 1, ex_ids.movies) = 0
    /\ fetched[1] = 2

\* -------------------------------------------------------------------- C25
\* C25: the persisted snapshot changes only in the step that saves the
\* workbook, which is taken after every descriptor has been walked and every
\* category merged, and that step writes the merged rows of every category; a
\* run that ends at any other point leaves the snapshot as it was.
C25_StoreOnlyAtSave ==
    /\ [][store' # store =>
            /\ pc = "save"
            /\ pc' = "idle"
            /\ di = Len(endpoints) + 1
            /\ \A d \in Descs : fetched[d] >= 1
            /\ store' = [exists |-> TRUE,
                         movies |-> write_sheet(data.movies),
                         channels |-> write_sheet(data.channels)]]_vars
    /\ [][(pc \in {"walk", "abandon", "merge", "networks"} /\ pc' = "idle")
             => store' = store]_vars

\* A run has merged new movie rows that the store does not hold yet.
C25_Witness ==
    /\ pc = "networks"
    /\ store.exists
    /\ Len(data.movies) > Len(store.movies)
    /\ existing.movies = store.movies

\* -------------------------------------------------------------------- C26
\* C26: the known ids of a category are set when the run loads the store,
\* before the first descriptor is walked: they are the ids of the sheet, or
\* none when it could not be read; no page fetch, no return of a walker, no
\* merge changes them, and every page of every descriptor is filtered against
\* the ids as loaded, so that a new id found twice is taken twice and
\* reconciled by the merge only.
C26_KnownIdsFrozen ==
    /\ [][(pc = "idle" /\ pc' = "walk") =>
            /\ ex_ids'.movies \in {RowIds(store.movies), {}}
            /\ ex_ids'.channels \in {RowIds(store.channels), {}}]_vars
    /\ [][(pc \in {"walk", "abandon", "merge", "networks"}) =>
            (ex_ids' = ex_ids /\ existing' = existing)]_vars
    /\ [][(IncrementalPageTaken /\ di' = di) =>
            results' = results \o UnknownOnPage]_vars
    /\ [](pc = "save" => \A j \in 1..Len(lists) : Count(data.movies, lists[j].id) = 1)

\* Both descriptors have returned the same new id to a run that loaded known
\* ids, and the known ids are still those of the store.
C26_Witness ==
    /\ pc = "merge"
    /\ fetch_fn = "fetch_incremental"
    /\ ex_ids.movies # {}
    /\ ex_ids.movies = RowIds(store.movies)
    /\ \E i \in Ids \ ex_ids.movies : Count(lists, i) = 2

\* -------------------------------------------------------------------- C27
\* The rows of the frame the link generator has passed over in this batch.
FailedRows ==
    {k \in 1..Len(df) : df[k].url /\ df[k].link = ""
                        /\ \A j \in 1..Len(todo) : todo[j] # df[k].label}

\* The ids of the lookup batch: looked up with a row, passed over, to come.
BatchIds(rows, passed, coming) ==
    RowIds(rows) \cup passed \cup {coming[j] : j \in 1..Len(coming)}

\* C27 (as claimed): every failed network lookup of the scraper and every
\* failed row of the link generator is skipped, counted and logged, and the
\* rest of the batch is processed.
C27_SkippedCountedLogged ==
    /\ failure_lines = Cardinality(skipped)
    /\ rpc = "lv_rows" => errors = Cardinality(FailedRows)

\* C27: a network lookup that yields no row, and a row whose wrapping raises,
\* are passed over and the loop goes on to the next record: every id of the
\* lookup batch ends with a row or passed over, every row of the link batch
\* ends linked or counted in errors. The link generator counts every failure;
\* the scraper keeps no count, and get() prints its failure line for some of
\* the failed lookups only.
C27_FailedRecordSkipped ==
    /\ [][BatchIds(detailed', skipped', network_ids')
             = BatchIds(detailed, skipped, network_ids)]_vars
    /\ [][network_ids' # network_ids =>
            /\ network_ids' = Tail(network_ids)
            /\ \/ detailed' = detailed /\ skipped' = skipped \cup {Head(network_ids)}
               \/ /\ detailed' = Append(detailed, [id |-> Head(network_ids), title |-> 0])
                  /\ skipped' = skipped]_vars
    /\ [](RowIds(detailed) \cap skipped = {})
    /\ [](failure_lines <= Cardinality(skipped))
    /\ [](pc = "save" => (network_ids = <<>> /\ RowIds(data.channels) = RowIds(detailed)))
    /\ [](rpc = "lv_rows" =>
            /\ errors = Cardinality(FailedRows)
            /\ success + errors + Len(todo) = n_todo)
    /\ [][(rpc = "lv_rows" /\ todo' # todo) =>
            /\ todo' = Tail(todo)
            /\ rpc' = "lv_rows"
            /\ \/ errors' = errors + 1 /\ success' = success /\ df' = df
               \/ errors' = errors /\ success' = success + 1]_vars

\* The lookup batch has ended with one id passed over and one row, and the
\* link batch stands at its end with its first row failed and its second
\* row linked.
C27_Witness ==
    /\ pc = "save"
    /\ Cardinality(skipped) = 1
    /\ Len(detailed) = 1
    /\ rpc = "lv_rows"
    /\ todo = <<>>
    /\ errors = 1
    /\ success = 1
    /\ df[1].link = ""
    /\ df[2].link \in Links

\* -------------------------------------------------------------------- C28
\* C28 (as claimed): whenever load_existing_rows returns records, the id set
\* it returns is exactly the set of the identifiers of those records, whatever
\* the sheet holds.
C28_IdsAreTheRowsIds ==
    pc = "loaded" =>
        \A c \in CategoryNames :
            existing[c] # <<>> =>
                ex_ids[c] = {GetKey(existing[c][j], reader_id_col(c))
                                : j \in 1..Len(existing[c])}

\* ------------------------------------------------------------------- C29
\* The links stored by row index are those of the records at these indexes:
\* every checkpoint entry {idx: lv_url} and every link of the output sheet at
\* a row index the source sheet has is the link of the URL of the record now
\* at that index of the source sheet.
LinksMatch ==
    /\ \A k \in 1..Len(checkpoint.data) :
          LET e == checkpoint.data[k]
          IN  e.idx < Len(store.movies) =>
                  e.lv_url = LinkOf(store.movies[e.idx + 1].id)
    /\ \A k \in 1..Len(output.rows) :
          (output.rows[k] \in Links /\ k <= Len(store.movies)) =>
              output.rows[k] = LinkOf(store.movies[k].id)

\* C29: after any sequence of scraper runs and link-generator runs, whenever
\* a run of the link generator ends, the link stored for row index i in the
\* checkpoint and in the output workbook was generated from the URL of the
\* record at row index i of the current source sheet.
C29_LinkOfRowAtIndex ==
    [][(rpc = "lv_rows" /\ rpc' = "sleep") => LinksMatch']_vars

\* ------------------------------------------------------------------- C30
\* C30: in the run summary the reported total is the sum of the four reported
\* category counts (movies + tv_shows + anime + channels), and that sum is
\* the number of records written across the five category sheets.
C30_TotalIsSumOfCounts ==
    stats # NoStats =>
        LET c == summary_counts(stats)
        IN  /\ summary_total(stats) = c[1] + c[2] + c[3] + c[4]
            /\ c[1] + c[2] + c[3] + c[4] = written(sheet_rows)

====
